---- MODULE Spec2Model ----
(***************************************************************************)
(* http_codex: the HttpCode / HttpCodeClass conversions of                 *)
(* src/http_code.rs.                                                       *)
(*                                                                         *)
(* Integers wider than 31 bits are kept as little-endian tuples of 16-bit  *)
(* limbs in two's complement, so that u32 payloads above 2^31 and the      *)
(* `as u32` casts of the 64 and 128 bit types are computed bit for bit.    *)
(* A u32 is a tuple <<low limb, high limb>>.                               *)
(***************************************************************************)
EXTENDS Integers, Sequences, FiniteSets

VARIABLES input, code, int, opt, class, back, pc

vars == <<input, code, int, opt, class, back, pc>>

----------------------------------------------------------------------------
(* Bounds of the enumerated inputs *)

\* low limbs 0..MaxLow are enumerated: every value up to and past 5xx
MaxLow == 600

\* low limbs 2^16 - MaxNeg .. 2^16 - 1 are enumerated: the values -MaxNeg..-1
MaxNeg == 3

----------------------------------------------------------------------------
(* Integer representation *)

LimbBase == 2 ^ 16

SignBit == 2 ^ 15

\* a small literal as a u32
U32(n) == <<n % LimbBase, n \div LimbBase>>

UnsignedTypes == {"u16", "u32", "u64", "u128", "usize"}

SignedTypes == {"i16", "i32", "i64", "i128", "isize"}

IntTypes == UnsignedTypes \cup SignedTypes

\* number of 16-bit limbs of a type; usize and isize follow the target's
\* pointer width (16, 32 or 64 bits)
LimbCounts(T) ==
  CASE T \in {"u16", "i16"} -> {1}
    [] T \in {"u32", "i32"} -> {2}
    [] T \in {"u64", "i64"} -> {4}
    [] T \in {"u128", "i128"} -> {8}
    [] T \in {"usize", "isize"} -> {1, 2, 4}

\* AsU32 zero extending the 16-bit signed types as well
AsU32ZeroExtended(T, value) ==
  IF Len(value) >= 2
    THEN <<value[1], value[2]>>
    ELSE <<value[1], 0>>

\* `value as u32`: truncation to the low 32 bits for the wider types, zero
\* extension for u16 (and a 16-bit usize), sign extension for i16 (and a
\* 16-bit isize)
AsU32(T, value) ==
  IF Len(value) >= 2
    THEN <<value[1], value[2]>>
    ELSE IF T \in SignedTypes /\ value[1] >= SignBit
           THEN <<value[1], LimbBase - 1>>
           ELSE <<value[1], 0>>

----------------------------------------------------------------------------
(* enum HttpCode, enum HttpCodeClass, Option *)

\* the unit variants of HttpCode other than None
KnownVariants ==
  {
    "Continue", "SwitchingProtocols", "Processing", "EarlyHints", "Ok",
    "Created", "Accepted", "NonAuthoritativeInformation", "NoContent",
    "ResetContent", "PartialContent", "MultiStatus", "AlreadyReported",
    "ImUsed", "MultipleChoices", "MovedPermanently", "Found", "SeeOther",
    "NotModified", "TemporaryRedirect", "PermanentRedirect", "BadRequest",
    "Unauthorized", "PaymentRequired", "Forbidden", "NotFound",
    "MethodNotAllowed", "NotAcceptable", "ProxyAuthentificationRequired",
    "RequestTimeout", "Conflict", "Gone", "LengthRequired",
    "PreconditionFailed", "PayloadTooLarge", "UriTooLong",
    "UnsupportedMediaType", "RangeNotSatisfiable", "ExpectationFailed",
    "ImATeapot", "MisdirectedRequest", "UnprocessableContent", "Locked",
    "FailedDependency", "TooEarly", "UpgradeRequired",
    "PreconditionRequired", "TooManyRequests", "RequestHeaderFieldsTooLarge",
    "UnavailableForLegalReasons", "InternalServerError", "NotImplemented",
    "BadGateway", "ServiceUnavailable", "GatewayTimeout",
    "HttpVersionNotSupported", "VariantAlsoNegotiates",
    "InsufficientStorage", "LoopDetected", "NotExtended",
    "NetworkAuthetificationRequired"
  }

Known(name) == [variant |-> name]

HttpCode_None == [variant |-> "None"]

Unknown(v) == [variant |-> "Unknown", v |-> v]

HttpCodeClass ==
  {"Informational", "Successful", "Redirection", "ClientError",
   "ServerError", "None", "Unknown"}

None == [some |-> FALSE]

Some(v) == [some |-> TRUE, val |-> v]

----------------------------------------------------------------------------
(* impl From<u32> for HttpCode *)

\* match arms, lines 447-450
FromArms1xx ==
  {
    <<100, "Continue">>, <<101, "SwitchingProtocols">>,
    <<102, "Processing">>, <<103, "EarlyHints">>
  }

\* match arms, lines 451-460
FromArms2xx ==
  {
    <<200, "Ok">>, <<201, "Created">>, <<202, "Accepted">>,
    <<203, "NonAuthoritativeInformation">>, <<204, "NoContent">>,
    <<205, "ResetContent">>, <<206, "PartialContent">>,
    <<207, "MultiStatus">>, <<208, "AlreadyReported">>, <<226, "ImUsed">>
  }

\* FromArms3xx with the variants of 307 and 308 exchanged
FromArms3xxSwapped ==
  {
    <<300, "MultipleChoices">>, <<301, "MovedPermanently">>,
    <<302, "Found">>, <<303, "SeeOther">>, <<304, "NotModified">>,
    <<307, "PermanentRedirect">>, <<308, "TemporaryRedirect">>
  }

\* match arms, lines 461-467
FromArms3xx ==
  {
    <<300, "MultipleChoices">>, <<301, "MovedPermanently">>,
    <<302, "Found">>, <<303, "SeeOther">>, <<304, "NotModified">>,
    <<307, "TemporaryRedirect">>, <<308, "PermanentRedirect">>
  }

\* match arms, lines 468-496
FromArms4xx ==
  {
    <<400, "BadRequest">>, <<401, "Unauthorized">>,
    <<402, "PaymentRequired">>, <<403, "Forbidden">>, <<404, "NotFound">>,
    <<405, "MethodNotAllowed">>, <<406, "NotAcceptable">>,
    <<407, "ProxyAuthentificationRequired">>, <<408, "RequestTimeout">>,
    <<409, "Conflict">>, <<410, "Gone">>, <<411, "LengthRequired">>,
    <<412, "PreconditionFailed">>, <<413, "PayloadTooLarge">>,
    <<414, "UriTooLong">>, <<415, "UnsupportedMediaType">>,
    <<416, "RangeNotSatisfiable">>, <<417, "ExpectationFailed">>,
    <<418, "ImATeapot">>, <<421, "MisdirectedRequest">>,
    <<422, "UnprocessableContent">>, <<423, "Locked">>,
    <<424, "FailedDependency">>, <<425, "TooEarly">>,
    <<426, "UpgradeRequired">>, <<428, "PreconditionRequired">>,
    <<429, "TooManyRequests">>, <<431, "RequestHeaderFieldsTooLarge">>,
    <<451, "UnavailableForLegalReasons">>
  }

\* match arms, lines 497-507
FromArms5xx ==
  {
    <<500, "InternalServerError">>, <<501, "NotImplemented">>,
    <<502, "BadGateway">>, <<503, "ServiceUnavailable">>,
    <<504, "GatewayTimeout">>, <<505, "HttpVersionNotSupported">>,
    <<506, "VariantAlsoNegotiates">>, <<507, "InsufficientStorage">>,
    <<508, "LoopDetected">>, <<510, "NotExtended">>,
    <<511, "NetworkAuthetificationRequired">>
  }


FromArms == FromArms1xx \cup FromArms2xx \cup FromArms3xx \cup FromArms4xx \cup FromArms5xx

\* FromU32 matching on the low 16 bits of the value only
FromU32LowLimb(value) ==
  IF \E arm \in FromArms : value[1] = arm[1]
    THEN Known((CHOOSE arm \in FromArms : value[1] = arm[1])[2])
    ELSE Unknown(value)

\* match value { <literal> => <variant>, ..., v => HttpCode::Unknown(v) }
FromU32(value) ==
  IF \E arm \in FromArms : value = U32(arm[1])
    THEN Known((CHOOSE arm \in FromArms : value = U32(arm[1]))[2])
    ELSE Unknown(value)

----------------------------------------------------------------------------
(* impl Default, impl From<u128 .. isize>, impl From<Option<_>> for HttpCode *)

\* Default_default returning the code of the integer 0
DefaultUnknownZero == Unknown(U32(0))

Default_default == HttpCode_None

\* u32 is matched directly; every other width is `(value as u32).into()`
HttpCodeFrom(T, value) ==
  IF T = "u32" THEN FromU32(value) ELSE FromU32(AsU32(T, value))

\* HttpCodeFromOption taking Some(0) for an absent value as well
HttpCodeFromOptionZeroAbsent(T, value) ==
  IF value = None \/ \A i \in 1 .. Len(value.val) : value.val[i] = 0
    THEN HttpCode_None
    ELSE HttpCodeFrom(T, value.val)

\* match value { None => HttpCode::None, Some(v) => HttpCode::from(v) }
HttpCodeFromOption(T, value) ==
  IF value = None THEN HttpCode_None ELSE HttpCodeFrom(T, value.val)

----------------------------------------------------------------------------
(* impl From<HttpCode> for u32, for Option<u32> *)

\* ToArms1xx with the integers of two arms exchanged
ToArms1xxSwapped ==
  {
    <<"Continue", 100>>, <<"SwitchingProtocols", 102>>,
    <<"Processing", 101>>, <<"EarlyHints", 103>>
  }

\* ToArms1xx with the integer of one arm repeated in the next
ToArms1xxDuplicated ==
  {
    <<"Continue", 100>>, <<"SwitchingProtocols", 101>>,
    <<"Processing", 101>>, <<"EarlyHints", 103>>
  }

\* match arms, lines 666-669
ToArms1xx ==
  {
    <<"Continue", 100>>, <<"SwitchingProtocols", 101>>,
    <<"Processing", 102>>, <<"EarlyHints", 103>>
  }

\* match arms, lines 670-679
ToArms2xx ==
  {
    <<"Ok", 200>>, <<"Created", 201>>, <<"Accepted", 202>>,
    <<"NonAuthoritativeInformation", 203>>, <<"NoContent", 204>>,
    <<"ResetContent", 205>>, <<"PartialContent", 206>>,
    <<"MultiStatus", 207>>, <<"AlreadyReported", 208>>, <<"ImUsed", 226>>
  }

\* match arms, lines 680-686
ToArms3xx ==
  {
    <<"MultipleChoices", 300>>, <<"MovedPermanently", 301>>,
    <<"Found", 302>>, <<"SeeOther", 303>>, <<"NotModified", 304>>,
    <<"TemporaryRedirect", 307>>, <<"PermanentRedirect", 308>>
  }

\* match arms, lines 687-715
ToArms4xx ==
  {
    <<"BadRequest", 400>>, <<"Unauthorized", 401>>,
    <<"PaymentRequired", 402>>, <<"Forbidden", 403>>, <<"NotFound", 404>>,
    <<"MethodNotAllowed", 405>>, <<"NotAcceptable", 406>>,
    <<"ProxyAuthentificationRequired", 407>>, <<"RequestTimeout", 408>>,
    <<"Conflict", 409>>, <<"Gone", 410>>, <<"LengthRequired", 411>>,
    <<"PreconditionFailed", 412>>, <<"PayloadTooLarge", 413>>,
    <<"UriTooLong", 414>>, <<"UnsupportedMediaType", 415>>,
    <<"RangeNotSatisfiable", 416>>, <<"ExpectationFailed", 417>>,
    <<"ImATeapot", 418>>, <<"MisdirectedRequest", 421>>,
    <<"UnprocessableContent", 422>>, <<"Locked", 423>>,
    <<"FailedDependency", 424>>, <<"TooEarly", 425>>,
    <<"UpgradeRequired", 426>>, <<"PreconditionRequired", 428>>,
    <<"TooManyRequests", 429>>, <<"RequestHeaderFieldsTooLarge", 431>>,
    <<"UnavailableForLegalReasons", 451>>
  }

\* match arms, lines 716-726
ToArms5xx ==
  {
    <<"InternalServerError", 500>>, <<"NotImplemented", 501>>,
    <<"BadGateway", 502>>, <<"ServiceUnavailable", 503>>,
    <<"GatewayTimeout", 504>>, <<"HttpVersionNotSupported", 505>>,
    <<"VariantAlsoNegotiates", 506>>, <<"InsufficientStorage", 507>>,
    <<"LoopDetected", 508>>, <<"NotExtended", 510>>,
    <<"NetworkAuthetificationRequired", 511>>
  }

ToArms == ToArms1xx \cup ToArms2xx \cup ToArms3xx \cup ToArms4xx \cup ToArms5xx

\* ToU32 returning only the low 16 bits of an Unknown's payload
ToU32LowLimb(value) ==
  CASE value.variant = "Unknown" -> <<value.v[1], 0>>
    [] value.variant = "None" -> U32(0)
    [] OTHER -> U32((CHOOSE arm \in ToArms : arm[1] = value.variant)[2])

\* match value { <variant> => <literal>, ..., Unknown(v) => v, None => 0 }
ToU32(value) ==
  CASE value.variant = "Unknown" -> value.v
    [] value.variant = "None" -> U32(0)
    [] OTHER -> U32((CHOOSE arm \in ToArms : arm[1] = value.variant)[2])

\* ToOptionU32 taking the integer 0 for absence
ToOptionU32ZeroAbsent(value) ==
  IF ToU32(value) = U32(0) THEN None ELSE Some(ToU32(value))

\* match value { HttpCode::None => None, _ => Some(value.into()) }
ToOptionU32(value) ==
  IF value = HttpCode_None THEN None ELSE Some(ToU32(value))

----------------------------------------------------------------------------
(* impl From<HttpCode> for HttpCodeClass *)

\* arm, lines 745-748
ArmInformational ==
  {
    "Continue", "SwitchingProtocols", "Processing", "EarlyHints"
  }

\* arm, lines 750-759
ArmSuccessful ==
  {
    "Ok", "Created", "Accepted", "NonAuthoritativeInformation", "NoContent",
    "ResetContent", "PartialContent", "MultiStatus", "AlreadyReported",
    "ImUsed"
  }

\* arm, lines 761-767
ArmRedirection ==
  {
    "MultipleChoices", "MovedPermanently", "Found", "SeeOther",
    "NotModified", "TemporaryRedirect", "PermanentRedirect"
  }

\* arm, lines 769-797
ArmClientError ==
  {
    "BadRequest", "Unauthorized", "PaymentRequired", "Forbidden", "NotFound",
    "MethodNotAllowed", "NotAcceptable", "ProxyAuthentificationRequired",
    "RequestTimeout", "Conflict", "Gone", "LengthRequired",
    "PreconditionFailed", "PayloadTooLarge", "UriTooLong",
    "UnsupportedMediaType", "RangeNotSatisfiable", "ExpectationFailed",
    "ImATeapot", "MisdirectedRequest", "UnprocessableContent", "Locked",
    "FailedDependency", "TooEarly", "UpgradeRequired",
    "PreconditionRequired", "TooManyRequests", "RequestHeaderFieldsTooLarge",
    "UnavailableForLegalReasons"
  }

\* arm, lines 799-809
ArmServerError ==
  {
    "InternalServerError", "NotImplemented", "BadGateway",
    "ServiceUnavailable", "GatewayTimeout", "HttpVersionNotSupported",
    "VariantAlsoNegotiates", "InsufficientStorage", "LoopDetected",
    "NotExtended", "NetworkAuthetificationRequired"
  }

\* ToHttpCodeClass with the results of the 4xx and 5xx arms exchanged
ToHttpCodeClassMisfiled(value) ==
  CASE value.variant \in ArmInformational -> "Informational"
    [] value.variant \in ArmSuccessful -> "Successful"
    [] value.variant \in ArmRedirection -> "Redirection"
    [] value.variant \in ArmClientError -> "ServerError"
    [] value.variant \in ArmServerError -> "ClientError"
    [] value.variant = "None" -> "None"
    [] value.variant = "Unknown" -> "Unknown"

\* ToHttpCodeClass reading the class of an Unknown off its hundreds digit
ToHttpCodeClassInferred(value) ==
  CASE value.variant \in ArmInformational -> "Informational"
    [] value.variant \in ArmSuccessful -> "Successful"
    [] value.variant \in ArmRedirection -> "Redirection"
    [] value.variant \in ArmClientError -> "ClientError"
    [] value.variant \in ArmServerError -> "ServerError"
    [] value.variant = "None" -> "None"
    [] value.variant = "Unknown" ->
         IF value.v[2] = 0 /\ value.v[1] \in 100 .. 599
           THEN CASE value.v[1] \div 100 = 1 -> "Informational"
                  [] value.v[1] \div 100 = 2 -> "Successful"
                  [] value.v[1] \div 100 = 3 -> "Redirection"
                  [] value.v[1] \div 100 = 4 -> "ClientError"
                  [] value.v[1] \div 100 = 5 -> "ServerError"
           ELSE "Unknown"

ToHttpCodeClass(value) ==
  CASE value.variant \in ArmInformational -> "Informational"
    [] value.variant \in ArmSuccessful -> "Successful"
    [] value.variant \in ArmRedirection -> "Redirection"
    [] value.variant \in ArmClientError -> "ClientError"
    [] value.variant \in ArmServerError -> "ServerError"
    [] value.variant = "None" -> "None"
    [] value.variant = "Unknown" -> "Unknown"

----------------------------------------------------------------------------
(* The values a caller can pass *)

LowLimbs ==
  (0 .. MaxLow) \cup ((LimbBase - MaxNeg) .. (LimbBase - 1))
    \cup {SignBit - 1, SignBit} \cup {999, 12345}

\* limbs 2..8 of a 128-bit pattern: zero extension, all ones (a negative
\* value), bit 32 set, bits 32.. set over a zero high limb, bit 16 set,
\* bit 31 set
UpperShapes ==
  {
    <<0, 0, 0, 0, 0, 0, 0>>,
    <<LimbBase - 1, LimbBase - 1, LimbBase - 1, LimbBase - 1,
      LimbBase - 1, LimbBase - 1, LimbBase - 1>>,
    <<0, 1, 0, 0, 0, 0, 0>>,
    <<0, LimbBase - 1, LimbBase - 1, LimbBase - 1, LimbBase - 1,
      LimbBase - 1, LimbBase - 1>>,
    <<1, 0, 0, 0, 0, 0, 0>>,
    <<SignBit, 0, 0, 0, 0, 0, 0>>
  }

\* the bit patterns of a type: the 128-bit patterns cut to its width
Values(T) ==
  UNION { { SubSeq(<<lo>> \o up, 1, n) : lo \in LowLimbs, up \in UpperShapes }
          : n \in LimbCounts(T) }

\* the HttpCode values a caller can write down
Codes ==
  { Known(name) : name \in KnownVariants } \cup {HttpCode_None}
    \cup { Unknown(v) : v \in Values("u32") }

NoCode == [variant |-> "(unset)"]

NoInt == <<>>

NoOpt == [unset |-> TRUE]

NoClass == "(unset)"

----------------------------------------------------------------------------
(* The calls *)

Init ==
  /\ \/ \E T \in IntTypes : \E v \in Values(T) :
          input = [kind |-> "int", type |-> T, value |-> v]
     \/ \E T \in IntTypes : \E v \in Values(T) :
          input = [kind |-> "option", type |-> T, value |-> Some(v)]
     \/ \E T \in IntTypes :
          input = [kind |-> "option", type |-> T, value |-> None]
     \/ input = [kind |-> "unit"]
  /\ code = NoCode
  /\ int = NoInt
  /\ opt = NoOpt
  /\ class = NoClass
  /\ back = NoCode
  /\ pc = "start"

\* the caller holds an argument of the given kind and type and has not
\* converted it yet
Holds(kind, T) ==
  /\ pc = "start"
  /\ input.kind = kind
  /\ input.type = T

\* HttpCode::from(value: u32)
FromU32Int ==
  /\ Holds("int", "u32")
  /\ code' = HttpCodeFrom("u32", input.value)
  /\ pc' = "code"
  /\ UNCHANGED <<input, int, opt, class, back>>

\* HttpCode::from(value: u128)
FromU128 ==
  /\ Holds("int", "u128")
  /\ code' = HttpCodeFrom("u128", input.value)
  /\ pc' = "code"
  /\ UNCHANGED <<input, int, opt, class, back>>

\* HttpCode::from(value: u64)
FromU64 ==
  /\ Holds("int", "u64")
  /\ code' = HttpCodeFrom("u64", input.value)
  /\ pc' = "code"
  /\ UNCHANGED <<input, int, opt, class, back>>

\* HttpCode::from(value: u16)
FromU16 ==
  /\ Holds("int", "u16")
  /\ code' = HttpCodeFrom("u16", input.value)
  /\ pc' = "code"
  /\ UNCHANGED <<input, int, opt, class, back>>

\* HttpCode::from(value: usize)
FromUsize ==
  /\ Holds("int", "usize")
  /\ code' = HttpCodeFrom("usize", input.value)
  /\ pc' = "code"
  /\ UNCHANGED <<input, int, opt, class, back>>

\* HttpCode::from(value: i128)
FromI128 ==
  /\ Holds("int", "i128")
  /\ code' = HttpCodeFrom("i128", input.value)
  /\ pc' = "code"
  /\ UNCHANGED <<input, int, opt, class, back>>

\* HttpCode::from(value: i64)
FromI64 ==
  /\ Holds("int", "i64")
  /\ code' = HttpCodeFrom("i64", input.value)
  /\ pc' = "code"
  /\ UNCHANGED <<input, int, opt, class, back>>

\* HttpCode::from(value: i32)
FromI32 ==
  /\ Holds("int", "i32")
  /\ code' = HttpCodeFrom("i32", input.value)
  /\ pc' = "code"
  /\ UNCHANGED <<input, int, opt, class, back>>

\* HttpCode::from(value: i16)
FromI16 ==
  /\ Holds("int", "i16")
  /\ code' = HttpCodeFrom("i16", input.value)
  /\ pc' = "code"
  /\ UNCHANGED <<input, int, opt, class, back>>

\* HttpCode::from(value: isize)
FromIsize ==
  /\ Holds("int", "isize")
  /\ code' = HttpCodeFrom("isize", input.value)
  /\ pc' = "code"
  /\ UNCHANGED <<input, int, opt, class, back>>

\* HttpCode::from(value: Option<u128>)
FromOptionU128 ==
  /\ Holds("option", "u128")
  /\ code' = HttpCodeFromOption("u128", input.value)
  /\ pc' = "code"
  /\ UNCHANGED <<input, int, opt, class, back>>

\* HttpCode::from(value: Option<u64>)
FromOptionU64 ==
  /\ Holds("option", "u64")
  /\ code' = HttpCodeFromOption("u64", input.value)
  /\ pc' = "code"
  /\ UNCHANGED <<input, int, opt, class, back>>

\* HttpCode::from(value: Option<u32>)
FromOptionU32 ==
  /\ Holds("option", "u32")
  /\ code' = HttpCodeFromOption("u32", input.value)
  /\ pc' = "code"
  /\ UNCHANGED <<input, int, opt, class, back>>

\* HttpCode::from(value: Option<u16>)
FromOptionU16 ==
  /\ Holds("option", "u16")
  /\ code' = HttpCodeFromOption("u16", input.value)
  /\ pc' = "code"
  /\ UNCHANGED <<input, int, opt, class, back>>

\* HttpCode::from(value: Option<usize>)
FromOptionUsize ==
  /\ Holds("option", "usize")
  /\ code' = HttpCodeFromOption("usize", input.value)
  /\ pc' = "code"
  /\ UNCHANGED <<input, int, opt, class, back>>

\* HttpCode::from(value: Option<i128>)
FromOptionI128 ==
  /\ Holds("option", "i128")
  /\ code' = HttpCodeFromOption("i128", input.value)
  /\ pc' = "code"
  /\ UNCHANGED <<input, int, opt, class, back>>

\* HttpCode::from(value: Option<i64>)
FromOptionI64 ==
  /\ Holds("option", "i64")
  /\ code' = HttpCodeFromOption("i64", input.value)
  /\ pc' = "code"
  /\ UNCHANGED <<input, int, opt, class, back>>

\* HttpCode::from(value: Option<i32>)
FromOptionI32 ==
  /\ Holds("option", "i32")
  /\ code' = HttpCodeFromOption("i32", input.value)
  /\ pc' = "code"
  /\ UNCHANGED <<input, int, opt, class, back>>

\* HttpCode::from(value: Option<i16>)
FromOptionI16 ==
  /\ Holds("option", "i16")
  /\ code' = HttpCodeFromOption("i16", input.value)
  /\ pc' = "code"
  /\ UNCHANGED <<input, int, opt, class, back>>

\* HttpCode::from(value: Option<isize>)
FromOptionIsize ==
  /\ Holds("option", "isize")
  /\ code' = HttpCodeFromOption("isize", input.value)
  /\ pc' = "code"
  /\ UNCHANGED <<input, int, opt, class, back>>

\* HttpCode::default()
Default ==
  /\ pc = "start"
  /\ input.kind = "unit"
  /\ code' = Default_default
  /\ pc' = "code"
  /\ UNCHANGED <<input, int, opt, class, back>>

\* the caller names a variant itself: HttpCode::NotFound, HttpCode::Unknown(7)
Construct ==
  /\ pc = "start"
  /\ input.kind = "unit"
  /\ \E c \in Codes : code' = c
  /\ pc' = "code"
  /\ UNCHANGED <<input, int, opt, class, back>>

\* u32::from(code)
IntoU32 ==
  /\ pc = "code"
  /\ int' = ToU32(code)
  /\ pc' = "int"
  /\ UNCHANGED <<input, code, opt, class, back>>

\* Option::<u32>::from(code)
IntoOptionU32 ==
  /\ pc = "code"
  /\ opt' = ToOptionU32(code)
  /\ pc' = "done"
  /\ UNCHANGED <<input, code, int, class, back>>

\* HttpCodeClass::from(code)
IntoHttpCodeClass ==
  /\ pc = "code"
  /\ class' = ToHttpCodeClass(code)
  /\ pc' = "done"
  /\ UNCHANGED <<input, code, int, opt, back>>

\* HttpCode::from(n) for the u32 that u32::from(code) returned
FromU32Back ==
  /\ pc = "int"
  /\ back' = FromU32(int)
  /\ pc' = "done"
  /\ UNCHANGED <<input, code, int, opt, class>>

Next ==
  \/ FromU32Int
  \/ FromU128
  \/ FromU64
  \/ FromU16
  \/ FromUsize
  \/ FromI128
  \/ FromI64
  \/ FromI32
  \/ FromI16
  \/ FromIsize
  \/ FromOptionU128
  \/ FromOptionU64
  \/ FromOptionU32
  \/ FromOptionU16
  \/ FromOptionUsize
  \/ FromOptionI128
  \/ FromOptionI64
  \/ FromOptionI32
  \/ FromOptionI16
  \/ FromOptionIsize
  \/ Default
  \/ Construct
  \/ IntoU32
  \/ IntoOptionU32
  \/ IntoHttpCodeClass
  \/ FromU32Back

Spec == Init /\ [][Next]_vars

----------------------------------------------------------------------------
(* Properties *)

\* the 61 registered status code values
KnownValues ==
  (100 .. 103) \cup (200 .. 208) \cup {226} \cup (300 .. 304) \cup {307, 308}
    \cup (400 .. 418) \cup (421 .. 426) \cup {428, 429, 431, 451}
    \cup (500 .. 508) \cup {510, 511}

\* the integer held in the limbs is one of the registered values
IsKnownValue(value) ==
  /\ value[1] \in KnownValues
  /\ \A i \in 2 .. Len(value) : value[i] = 0

IsKnownVariant(c) == c.variant \in KnownVariants

\* the class of a hundreds digit
ClassOfHundreds(h) ==
  CASE h = 1 -> "Informational"
    [] h = 2 -> "Successful"
    [] h = 3 -> "Redirection"
    [] h = 4 -> "ClientError"
    [] h = 5 -> "ServerError"
    [] OTHER -> "Unknown"

\* the number held in a u32 below 2^31
Number(u) == u[1] + u[2] * LimbBase

InputIs(kind, T) == input.kind = kind /\ input.type = T

\* C1: for each of the 61 known status code values v,
\* u32::from(HttpCode::from(v as u32)) is v.
C1_RoundTripKnownValues ==
  (InputIs("int", "u32") /\ IsKnownValue(input.value) /\ int # NoInt)
    => int = input.value

C1_Witness ==
  /\ InputIs("int", "u32")
  /\ input.value = U32(451)
  /\ code = Known("UnavailableForLegalReasons")
  /\ int = U32(451)

\* C2: for every known variant c (not None, not Unknown),
\* HttpCode::from(u32::from(c)) is c again.
C2_RoundTripKnownVariants ==
  (IsKnownVariant(code) /\ back # NoCode) => back = code

C2_Witness ==
  /\ input.kind = "unit"
  /\ code = Known("ImATeapot")
  /\ int = U32(418)
  /\ back = Known("ImATeapot")

\* C3: for every u32 v outside the known set HttpCode::from(v) is
\* Unknown(v), carrying exactly v, and u32::from(Unknown(v)) is v.
C3_UnknownPreserved ==
  /\ (InputIs("int", "u32") /\ ~IsKnownValue(input.value) /\ pc # "start")
       => /\ code = Unknown(input.value)
          /\ int # NoInt => int = input.value
  /\ (code.variant = "Unknown" /\ ~IsKnownValue(code.v) /\ int # NoInt)
       => int = code.v

C3_Witness ==
  /\ InputIs("int", "u32")
  /\ input.value = U32(305)
  /\ code = Unknown(U32(305))
  /\ int = U32(305)

\* C4: for an input of any of the ten integer types whose numeric value is
\* not a known code, HttpCode::from returns Unknown holding the value cast
\* to u32, never a known variant.
C4_UnknownForEveryWidth ==
  (input.kind = "int" /\ ~IsKnownValue(input.value) /\ pc # "start")
    => /\ ~IsKnownVariant(code)
       /\ code = Unknown(AsU32(input.type, input.value))

\* C5: HttpCode::from(None::<u32>) is HttpCode::None, Option::<u32>::from
\* of HttpCode::None is None, and for every u32 v, zero included,
\* Option::<u32>::from(HttpCode::from(Some(v))) is Some(v).
C5_AbsenceRoundTrip ==
  /\ (InputIs("option", "u32") /\ input.value = None /\ pc # "start")
       => code = HttpCode_None
  /\ (code = HttpCode_None /\ opt # NoOpt) => opt = None
  /\ (InputIs("option", "u32") /\ input.value # None /\ opt # NoOpt)
       => opt = input.value

C5_Witness ==
  /\ InputIs("option", "u32")
  /\ input.value = Some(U32(0))
  /\ opt = Some(U32(0))

\* C6: a known variant whose integer is n classifies as the class of
\* n / 100; None classifies as None and every Unknown(x) as Unknown.
C6_ClassificationConsistent ==
  class # NoClass =>
    /\ IsKnownVariant(code)
         => class = ClassOfHundreds(Number(ToU32(code)) \div 100)
    /\ code = HttpCode_None => class = "None"
    /\ code.variant = "Unknown" => class = "Unknown"

C6_Witness ==
  /\ code = Known("ImUsed")
  /\ class = "Successful"

\* C7: for every u32 v the class of HttpCode::from(v) is the class of the
\* hundreds digit when v is a known code and Unknown otherwise, also for an
\* unlisted v in 100..599; it is never None.
C7_ClassOfInteger ==
  (InputIs("int", "u32") /\ class # NoClass)
    => /\ class = IF IsKnownValue(input.value)
                    THEN ClassOfHundreds(input.value[1] \div 100)
                    ELSE "Unknown"
       /\ class # "None"

C7_Witness ==
  /\ InputIs("int", "u32")
  /\ input.value = U32(599)
  /\ class = "Unknown"

\* C8: every known variant has an integer in 100..599, never 0, and no
\* other known variant has the same integer.
C8_KnownIntegersDistinct ==
  (IsKnownVariant(code) /\ int # NoInt)
    => /\ int[2] = 0
       /\ int[1] \in 100 .. 599
       /\ \A name \in KnownVariants \ {code.variant} :
            ToU32(Known(name)) # int

C8_Witness ==
  /\ code = Known("NetworkAuthetificationRequired")
  /\ int = U32(511)

\* C9: Option::<u32>::from(c) is None exactly when c is HttpCode::None, and
\* Some(u32::from(c)) for every other c, Unknown(0) included.
C9_OptionalInteger ==
  opt # NoOpt
    => /\ opt = None <=> code = HttpCode_None
       /\ code # HttpCode_None => opt = Some(ToU32(code))

C9_Witness ==
  /\ code = Unknown(U32(0))
  /\ opt = Some(U32(0))

\* C10: for each of the ten Option types HttpCode::from(None) is
\* HttpCode::None and HttpCode::from(Some(v)) is HttpCode::from(v) of the
\* same type, so HttpCode::None comes only from an absent input.
C10_OptionDelegates ==
  (input.kind = "option" /\ pc # "start")
    => IF input.value = None
         THEN code = HttpCode_None
         ELSE /\ code = HttpCodeFrom(input.type, input.value.val)
              /\ code # HttpCode_None

C10_Witness ==
  /\ InputIs("option", "i16")
  /\ input.value = Some(<<LimbBase - 1>>)
  /\ code = Unknown(<<LimbBase - 1, LimbBase - 1>>)

\* the pairs the documentation and the tests name
Documented ==
  {
    <<101, "SwitchingProtocols">>, <<103, "EarlyHints">>, <<200, "Ok">>,
    <<204, "NoContent">>, <<226, "ImUsed">>, <<300, "MultipleChoices">>,
    <<302, "Found">>, <<307, "TemporaryRedirect">>, <<404, "NotFound">>,
    <<410, "Gone">>, <<416, "RangeNotSatisfiable">>, <<425, "TooEarly">>,
    <<451, "UnavailableForLegalReasons">>, <<504, "GatewayTimeout">>
  }

\* C11: HttpCode::from maps each documented integer to its documented
\* variant, u32::from maps the variant back to the integer, and
\* HttpCode::from(999) is Unknown(999).
C11_DocumentedTable ==
  /\ (InputIs("int", "u32") /\ pc # "start")
       => /\ \A d \in Documented :
               input.value = U32(d[1]) => code = Known(d[2])
          /\ input.value = U32(999) => code = Unknown(U32(999))
  /\ int # NoInt
       => \A d \in Documented : code = Known(d[2]) => int = U32(d[1])

C11_Witness ==
  /\ InputIs("int", "u32")
  /\ input.value = U32(425)
  /\ code = Known("TooEarly")
  /\ int = U32(425)

\* C12: u32::from(HttpCode::None) is 0, u32::from(Unknown(v)) is v for
\* every v, and on a known variant u32::from is undone by HttpCode::from.
C12_ToInteger ==
  int # NoInt
    => /\ code = HttpCode_None => int = U32(0)
       /\ code.variant = "Unknown" => int = code.v
       /\ (IsKnownVariant(code) /\ back # NoCode) => back = code

C12_Witness ==
  /\ code = Unknown(<<LimbBase - 1, LimbBase - 1>>)
  /\ int = <<LimbBase - 1, LimbBase - 1>>

IsU32(v) ==
  /\ Len(v) = 2
  /\ v[1] \in 0 .. (LimbBase - 1)
  /\ v[2] \in 0 .. (LimbBase - 1)

IsHttpCode(c) ==
  \/ IsKnownVariant(c)
  \/ c = HttpCode_None
  \/ c.variant = "Unknown" /\ IsU32(c.v)

\* every call that has returned has returned a value of its type
Returned ==
  /\ pc # "start" => IsHttpCode(code)
  /\ pc = "int" => int # NoInt
  /\ pc = "done" => opt # NoOpt \/ class # NoClass \/ back # NoCode
  /\ int # NoInt => IsU32(int)
  /\ opt # NoOpt => opt = None \/ IsU32(opt.val)
  /\ class # NoClass => class \in HttpCodeClass
  /\ back # NoCode => IsHttpCode(back)

\* every call the caller can make next returns
Returns ==
  /\ pc = "start" => ENABLED Next
  /\ pc = "code"
       => ENABLED IntoU32 /\ ENABLED IntoOptionU32 /\ ENABLED IntoHttpCodeClass
  /\ pc = "int" => ENABLED FromU32Back

\* C13: every operation is total: it returns a value of its type for every
\* input, an unrecognized integer becomes Unknown rather than a failure,
\* and default() returns HttpCode::None.
C13_Total ==
  /\ [](Returned /\ Returns)
  /\ []((input.kind = "int" /\ ~IsKnownValue(AsU32(input.type, input.value))
          /\ pc # "start") => code.variant = "Unknown")
  /\ [][Default => code' = HttpCode_None]_vars

C13_Witness ==
  /\ InputIs("int", "i128")
  /\ input.value[8] = LimbBase - 1
  /\ code.variant = "Unknown"
  /\ class = "Unknown"

\* the input is a negative i16 or i32
IsNegative16or32 ==
  /\ input.kind = "int"
  /\ input.type \in {"i16", "i32"}
  /\ input.value[Len(input.value)] >= SignBit

\* v + 2^32 for a negative i16 or i32 v, as a u32
Plus2To32(value) ==
  IF Len(value) = 1 THEN <<value[1], LimbBase - 1>> ELSE value

\* C14: for a negative i16 or i32 v, HttpCode::from(v) is Unknown(v + 2^32),
\* a payload of at least 2^31, never a known variant or None, and
\* u32::from of it is v + 2^32.
C14_NegativeWraps ==
  (IsNegative16or32 /\ pc # "start")
    => /\ code = Unknown(Plus2To32(input.value))
       /\ code.v[2] >= SignBit
       /\ int # NoInt => int = Plus2To32(input.value)

C14_Witness ==
  /\ InputIs("int", "i16")
  /\ input.value = <<LimbBase - 1>>
  /\ code = Unknown(<<LimbBase - 1, LimbBase - 1>>)
  /\ int = <<LimbBase - 1, LimbBase - 1>>

\* x mod 2^32 as a u32, for a value x of type T
Mod2To32(T, value) ==
  CASE Len(value) >= 2 -> <<value[1], value[2]>>
    [] Len(value) = 1 /\ T \in SignedTypes /\ value[1] >= SignBit
         -> <<value[1], LimbBase - 1>>
    [] OTHER -> <<value[1], 0>>

\* the value 0..32767 held in the low limb, in n limbs
Widen(lo, n) == [i \in 1 .. n |-> IF i = 1 THEN lo ELSE 0]

IsSmall(value) ==
  /\ value[1] < SignBit
  /\ \A i \in 2 .. Len(value) : value[i] = 0

\* C15: for every integer type T and value x of T, HttpCode::from(x) is
\* HttpCode::from((x mod 2^32) as u32); for a value in 0..=32767 all ten
\* conversions return the same HttpCode.
C15_WidthsAgree ==
  (input.kind = "int" /\ pc # "start")
    => /\ code = FromU32(Mod2To32(input.type, input.value))
       /\ IsSmall(input.value)
            => \A T \in IntTypes : \A n \in LimbCounts(T) :
                 HttpCodeFrom(T, Widen(input.value[1], n)) = code

C15_Witness ==
  /\ InputIs("int", "i128")
  /\ input.value = Widen(404, 8)
  /\ code = Known("NotFound")

\* C16: HttpCode::from(u32::from(c)) is c exactly when c is a known variant
\* or Unknown(v) with v not a known code; None becomes Unknown(0) and
\* Unknown(k) with k a known code becomes the variant of k; a second
\* application changes nothing, and every value HttpCode::from returned is
\* a fixed point.
C16_Normalisation ==
  back # NoCode
    => /\ back = code
            <=> \/ IsKnownVariant(code)
                \/ code.variant = "Unknown" /\ ~IsKnownValue(code.v)
       /\ code = HttpCode_None => back = Unknown(U32(0))
       /\ (code.variant = "Unknown" /\ IsKnownValue(code.v))
            => IsKnownVariant(back) /\ ToU32(back) = code.v
       /\ FromU32(ToU32(back)) = back
       /\ (input.kind = "int" \/ (input.kind = "option" /\ input.value.some))
            => back = code

C16_Witness ==
  /\ code = HttpCode_None
  /\ int = U32(0)
  /\ back = Unknown(U32(0))

====
